---- MODULE Spec2Model ----
(***************************************************************************)
(* Model of the semantic-search ingestion core:                            *)
(*   - EmbeddingGenerator (src/src/data_processing/embedding_generator.py) *)
(*     generate_embeddings / create_collection / store_embeddings /        *)
(*     process_chunks_to_embeddings, against a vector store and an         *)
(*     embedding provider that are external capabilities;                  *)
(*   - TextProcessor (src/src/data_processing/text_processor.py)           *)
(*     chunk_text and its helpers, on texts modelled character by          *)
(*     character.                                                          *)
(* A pipeline action performs one external call (provider encode, store    *)
(* get/delete/create/add/count) together with the local code that follows  *)
(* it up to the next external call.                                        *)
(***************************************************************************)
EXTENDS Integers, Sequences, FiniteSets, TLC

VARIABLES
    client,        \* the store's collection "product_embeddings": NoCollection or [uid, items]
    nextUid,       \* store-side source of fresh collection identities
    provider,      \* kind of embedding provider behind self.model.encode
    procs,         \* the EmbeddingGenerator processes that may run
    exclusive,     \* TRUE: the caller runs one ingestion at a time (single-writer assumption)
    runsStarted,   \* number of calls started so far
    pc,            \* per process: position in the running call
    op,            \* per process: "pipeline" (process_chunks_to_embeddings) or "embed" (generate_embeddings)
    chunks_df,     \* per process: the chunk rows handed to the call
    texts,         \* per process: texts handed to generate_embeddings
    batch_size,    \* per process: generate_embeddings' batch_size
    embeddings,    \* per process: the embeddings list / array
    i,             \* per process: loop offset of the running for-loop (0-based, as in range)
    collection,    \* per process: uid of the collection handle held (0: none)
    lastAdd,       \* per process: arguments of the most recent collection.add call
    encodeCalls,   \* per process: batches handed to the provider in this call
    storeCalls,    \* per process: delete/create/add calls issued in this call
    pre,           \* per process: the store as it was when the call started
    result,        \* per process: what the finished call returned
    stored_count,  \* per process: collection.count() read by the verification step
    err,           \* per process: the error the call ended with ("" when none)
    raced,         \* per process: another run's delete/create fell between its batch writes
    cin,           \* chunking: the input drawn for the TextProcessor calls
    cout           \* chunking: the result of the TextProcessor call

pvars == <<client, nextUid, provider, procs, exclusive, runsStarted, pc, op, chunks_df,
           texts, batch_size, embeddings, i, collection, lastAdd, encodeCalls,
           storeCalls, pre, result, stored_count, err, raced>>
cvars == <<cin, cout>>
vars == <<pvars, cvars>>

----------------------------------------------------------------------------
(* Bounds of the model *)

MaxRuns == 2          \* calls started in one behaviour
MaxTexts == 4         \* texts handed to a stand-alone generate_embeddings call
MaxBatchSize == 3     \* batch_size values tried by stand-alone generate_embeddings calls

(* Program constants *)

DefaultBatchSize == 32     \* generate_embeddings(texts, batch_size=32)
StoreBatchSize == 100      \* store_embeddings: batch_size = 100

Runs == {1, 2}

Min(a, b) == IF a < b THEN a ELSE b

\* Python slice s[lo:hi] of a list, lo and hi 0-based offsets, hi clipped to the length
Slice(s, lo, hi) == SubSeq(s, lo + 1, Min(hi, Len(s)))

----------------------------------------------------------------------------
(* Chunk rows: the columns of chunks_df that store_embeddings reads.        *)
(* chunk_id values are drawn from the naturals; text and metadata carry the *)
(* run tag and the row, so rows of different runs with the same chunk_id    *)
(* differ in content.                                                       *)

ChunkRow(tag, k, id) ==
    [chunk_id |-> id, text |-> <<tag, k>>, meta |-> <<"meta", tag, k>>]

\* n rows; with dup # 0 the last row repeats the chunk_id of row dup
ChunkFrame(n, tag, dup) ==
    [k \in 1..n |-> ChunkRow(tag, k, IF dup # 0 /\ k = n THEN dup ELSE k)]

\* sizes around the write-batch boundaries: one batch, two batches, three batches
FrameSizes == {0, 1, 2, StoreBatchSize + 1, 2 * StoreBatchSize + 1}

Frames(tag) ==
    {ChunkFrame(n, tag, 0) : n \in FrameSizes}
    \cup {ChunkFrame(n, tag, 1) : n \in FrameSizes \ {0, 1}}

\* interleaved runs: a one-batch and a two-batch chunk set
ConcurrentFrames(tag) == {ChunkFrame(n, tag, 0) : n \in {1, StoreBatchSize + 1}}

SmallFrames(tag) == {ChunkFrame(n, tag, 0) : n \in 0..MaxTexts}

----------------------------------------------------------------------------
(* The embedding provider: self.model.encode(batch, normalize_embeddings=True) *)
(* returns one vector per text of the batch, in order. A "pointwise" provider's *)
(* vector depends on the text alone; a "batchwise" one's also on the batch it  *)
(* was encoded in (e.g. padding-dependent numerics).                           *)

ProviderKinds == {"pointwise", "batchwise"}

Vec(kind, text, batch) ==
    IF kind = "pointwise" THEN <<"vec", text>> ELSE <<"vec", text, Len(batch)>>

ModelEncode(kind, batch) == [k \in 1..Len(batch) |-> Vec(kind, batch[k], batch)]

----------------------------------------------------------------------------
(* The vector store behind self.client, reduced to the one collection name   *)
(* every call of the pipeline uses ("product_embeddings"). A collection has  *)
(* an identity (uid) that a handle keeps, and items keyed by id.             *)

NoCollection == [uid |-> 0, items |-> <<>>]

Exists(c) == c.uid # 0

\* client.create_collection(name): a fresh, empty collection
NewCollection(uid) == [uid |-> uid, items |-> <<>>]

\* collection.count()
CountItems(c) == Cardinality(DOMAIN c.items)

\* collection.add refuses arrays of unequal length and ids repeated within the call
AddRefused(a) ==
    \/ Len(a.embeddings) # Len(a.ids)
    \/ Len(a.documents) # Len(a.ids)
    \/ Len(a.metadatas) # Len(a.ids)
    \/ \E x, y \in 1..Len(a.ids) : x # y /\ a.ids[x] = a.ids[y]

\* collection.add: every id not yet in the collection gets its row; an id the
\* collection already holds keeps the entry it has
AddItems(items, a) ==
    LET fresh == {a.ids[k] : k \in 1..Len(a.ids)} \ DOMAIN items
        rowOf(id) == CHOOSE k \in 1..Len(a.ids) : a.ids[k] = id
    IN [id \in DOMAIN items \cup fresh |->
           IF id \in DOMAIN items THEN items[id]
           ELSE [embedding |-> a.embeddings[rowOf(id)],
                 document |-> a.documents[rowOf(id)],
                 metadata |-> a.metadatas[rowOf(id)]]]

----------------------------------------------------------------------------
(* EmbeddingGenerator.generate_embeddings *)

\* batch = texts[i:i + batch_size]
EncodeBatch(ts, off, bs) == Slice(ts, off, off + bs)

\* (mutation of MoreBatches: the loop stops one text early)
MoreBatches_StopsEarly(n, off, bs) == off + bs + 1 < n

\* for i in range(0, len(texts), batch_size): is there another iteration after offset off
MoreBatches(n, off, bs) == off + bs < n

\* total_batches = (len(texts) + batch_size - 1) // batch_size
TotalBatches(n, bs) == (n + bs - 1) \div bs

----------------------------------------------------------------------------
(* EmbeddingGenerator.store_embeddings: the columns and one add call *)

Ids(df) == [k \in 1..Len(df) |-> df[k].chunk_id]
Documents(df) == [k \in 1..Len(df) |-> df[k].text]
Metadatas(df) == [k \in 1..Len(df) |-> df[k].meta]

\* (mutation of EndIdx: the slice end taken one short of the batch)
EndIdx_OneShort(off, n) == Min(off + StoreBatchSize - 1, n)

\* end_idx = min(i + batch_size, len(ids))
EndIdx(off, n) == Min(off + StoreBatchSize, n)

\* (mutation of AddArgs: the embeddings sliced from the start of the array)
AddArgs_EmbeddingsFromStart(df, embs, off) ==
    LET end_idx == EndIdx(off, Len(df))
    IN [i |-> off,
        embeddings |-> Slice(embs, 0, end_idx - off),
        documents |-> Slice(Documents(df), off, end_idx),
        metadatas |-> Slice(Metadatas(df), off, end_idx),
        ids |-> Slice(Ids(df), off, end_idx)]

\* the four arrays of the add call at offset off
AddArgs(df, embs, off) ==
    LET end_idx == EndIdx(off, Len(df))
    IN [i |-> off,
        embeddings |-> Slice(embs, off, end_idx),
        documents |-> Slice(Documents(df), off, end_idx),
        metadatas |-> Slice(Metadatas(df), off, end_idx),
        ids |-> Slice(Ids(df), off, end_idx)]

NoAdd == [i |-> -1, embeddings |-> <<>>, documents |-> <<>>, metadatas |-> <<>>, ids |-> <<>>]

----------------------------------------------------------------------------
(* Processes *)

Resting(r) == pc[r] \in {"idle", "done", "failed"}

MayStart(r) ==
    /\ r \in procs
    /\ Resting(r)
    /\ runsStarted < MaxRuns
    /\ exclusive => \A q \in Runs : Resting(q)

BeginCall(r, kind, df, bs) ==
    /\ op' = [op EXCEPT ![r] = kind]
    /\ chunks_df' = [chunks_df EXCEPT ![r] = df]
    /\ texts' = [texts EXCEPT ![r] = Documents(df)]
    /\ batch_size' = [batch_size EXCEPT ![r] = bs]
    /\ embeddings' = [embeddings EXCEPT ![r] = <<>>]
    /\ i' = [i EXCEPT ![r] = 0]
    /\ collection' = [collection EXCEPT ![r] = 0]
    /\ lastAdd' = [lastAdd EXCEPT ![r] = NoAdd]
    /\ encodeCalls' = [encodeCalls EXCEPT ![r] = <<>>]
    /\ storeCalls' = [storeCalls EXCEPT ![r] = 0]
    /\ pre' = [pre EXCEPT ![r] = client]
    /\ result' = [result EXCEPT ![r] = <<>>]
    /\ stored_count' = [stored_count EXCEPT ![r] = -1]
    /\ raced' = [raced EXCEPT ![r] = FALSE]
    /\ runsStarted' = runsStarted + 1

\* Where control goes when generate_embeddings' loop is over. The pipeline then
\* prints embedding_time/len(texts), which divides by zero for an empty chunk set.
AfterEmbedding(kind, n) ==
    IF kind = "embed" THEN "done"
    ELSE IF n = 0 THEN "failed" ELSE "get"

ErrAfterEmbedding(kind, n) ==
    IF kind = "pipeline" /\ n = 0 THEN "ZeroDivisionError" ELSE ""

\* process_chunks_to_embeddings(chunks_df): up to the first provider call
StartPipeline(r) ==
    /\ MayStart(r)
    /\ \E df \in (IF exclusive THEN Frames(runsStarted + 1)
                  ELSE ConcurrentFrames(runsStarted + 1)) :
        /\ BeginCall(r, "pipeline", df, DefaultBatchSize)
        /\ pc' = [pc EXCEPT ![r] = IF Len(df) = 0 THEN AfterEmbedding("pipeline", 0)
                                   ELSE "encode"]
        /\ err' = [err EXCEPT ![r] = IF Len(df) = 0 THEN ErrAfterEmbedding("pipeline", 0)
                                     ELSE ""]
    /\ UNCHANGED <<client, nextUid, provider, procs, exclusive, cvars>>

\* generate_embeddings(texts, batch_size) called on its own
StartGenerate(r) ==
    /\ MayStart(r)
    /\ \E df \in SmallFrames(0), bs \in 1..MaxBatchSize :
        /\ BeginCall(r, "embed", df, bs)
        /\ pc' = [pc EXCEPT ![r] = IF Len(df) = 0 THEN AfterEmbedding("embed", 0)
                                   ELSE "encode"]
        /\ err' = [err EXCEPT ![r] = ""]
    /\ UNCHANGED <<client, nextUid, provider, procs, exclusive, cvars>>

\* one iteration of generate_embeddings' loop: the provider answers
Encode(r) ==
    /\ pc[r] = "encode"
    /\ LET batch == EncodeBatch(texts[r], i[r], batch_size[r])
           batch_embeddings == ModelEncode(provider, batch)
           more == MoreBatches(Len(texts[r]), i[r], batch_size[r])
           all == embeddings[r] \o batch_embeddings
       IN /\ encodeCalls' = [encodeCalls EXCEPT ![r] = Append(@, batch)]
          /\ embeddings' = [embeddings EXCEPT ![r] = all]
          /\ i' = [i EXCEPT ![r] = IF more THEN @ + batch_size[r] ELSE 0]
          /\ pc' = [pc EXCEPT ![r] = IF more THEN "encode"
                                     ELSE AfterEmbedding(op[r], Len(texts[r]))]
          /\ result' = [result EXCEPT ![r] = IF ~more /\ op[r] = "embed" THEN all ELSE @]
    /\ UNCHANGED <<client, nextUid, provider, procs, exclusive, runsStarted, op, chunks_df,
                   texts, batch_size, collection, lastAdd, storeCalls, pre, stored_count,
                   err, raced, cvars>>

\* (mutation of EncodeRaises: the failure is caught and the pipeline goes on to
\* the store with the vectors it has)
EncodeRaises_Swallowed(r) ==
    /\ pc[r] = "encode"
    /\ encodeCalls' = [encodeCalls EXCEPT ![r] =
                          Append(@, EncodeBatch(texts[r], i[r], batch_size[r]))]
    /\ pc' = [pc EXCEPT ![r] = "get"]
    /\ err' = [err EXCEPT ![r] = "EmbeddingProviderFailure"]
    /\ UNCHANGED <<client, nextUid, provider, procs, exclusive, runsStarted, op, chunks_df,
                   texts, batch_size, embeddings, i, collection, lastAdd, storeCalls, pre,
                   result, stored_count, raced, cvars>>

\* one iteration of generate_embeddings' loop: the provider raises; no handler
\* catches it, so the embeddings list is lost and the caller's stages are skipped
EncodeRaises(r) ==
    /\ pc[r] = "encode"
    /\ encodeCalls' = [encodeCalls EXCEPT ![r] =
                          Append(@, EncodeBatch(texts[r], i[r], batch_size[r]))]
    /\ embeddings' = [embeddings EXCEPT ![r] = <<>>]
    /\ pc' = [pc EXCEPT ![r] = "failed"]
    /\ err' = [err EXCEPT ![r] = "EmbeddingProviderFailure"]
    /\ UNCHANGED <<client, nextUid, provider, procs, exclusive, runsStarted, op, chunks_df,
                   texts, batch_size, i, collection, lastAdd, storeCalls, pre, result,
                   stored_count, raced, cvars>>

\* The processes that are between two of their batch writes
MidWrites(r) == {q \in Runs \ {r} : pc[q] = "add" /\ i[q] > 0}

\* create_collection: existing_collection = self.client.get_collection(name);
\* it raises when there is none, and the bare except skips the delete
GetCollection(r) ==
    /\ pc[r] = "get"
    /\ pc' = [pc EXCEPT ![r] = IF Exists(client) THEN "delete" ELSE "create"]
    /\ UNCHANGED <<client, nextUid, provider, procs, exclusive, runsStarted, op, chunks_df,
                   texts, batch_size, embeddings, i, collection, lastAdd, encodeCalls,
                   storeCalls, pre, result, stored_count, err, raced, cvars>>

\* Where store_embeddings goes once it holds the collection: the add loop, or
\* straight to the return when there is no row
AfterCreate(n) == IF n = 0 THEN "count" ELSE "add"

\* (mutation of DeleteCollection: the existing collection is kept and written into)
DeleteCollection_Reuse(r) ==
    /\ pc[r] = "delete"
    /\ collection' = [collection EXCEPT ![r] = client.uid]
    /\ i' = [i EXCEPT ![r] = 0]
    /\ pc' = [pc EXCEPT ![r] = AfterCreate(Len(chunks_df[r]))]
    /\ UNCHANGED <<client, nextUid, provider, procs, exclusive, runsStarted, op, chunks_df,
                   texts, batch_size, embeddings, lastAdd, encodeCalls, storeCalls, pre,
                   result, stored_count, err, raced, cvars>>

\* create_collection: self.client.delete_collection(name); it raises when the
\* collection is gone by now, and the bare except swallows that too
DeleteCollection(r) ==
    /\ pc[r] = "delete"
    /\ client' = NoCollection
    /\ storeCalls' = [storeCalls EXCEPT ![r] = @ + 1]
    /\ raced' = [q \in Runs |-> raced[q] \/ (Exists(client) /\ q \in MidWrites(r))]
    /\ pc' = [pc EXCEPT ![r] = "create"]
    /\ UNCHANGED <<nextUid, provider, procs, exclusive, runsStarted, op, chunks_df, texts,
                   batch_size, embeddings, i, collection, lastAdd, encodeCalls, pre,
                   result, stored_count, err, cvars>>

\* create_collection: self.client.create_collection(name, metadata); the store
\* raises when a collection of that name exists. Then store_embeddings prepares
\* ids, documents and metadatas.
CreateCollection(r) ==
    /\ pc[r] = "create"
    /\ storeCalls' = [storeCalls EXCEPT ![r] = @ + 1]
    /\ IF Exists(client)
       THEN /\ pc' = [pc EXCEPT ![r] = "failed"]
            /\ err' = [err EXCEPT ![r] = "CollectionExists"]
            /\ UNCHANGED <<client, nextUid, collection, i, raced>>
       ELSE /\ client' = NewCollection(nextUid)
            /\ nextUid' = nextUid + 1
            /\ collection' = [collection EXCEPT ![r] = nextUid]
            /\ i' = [i EXCEPT ![r] = 0]
            /\ raced' = [q \in Runs |-> raced[q] \/ q \in MidWrites(r)]
            /\ pc' = [pc EXCEPT ![r] = AfterCreate(Len(chunks_df[r]))]
            /\ UNCHANGED err
    /\ UNCHANGED <<provider, procs, exclusive, runsStarted, op, chunks_df, texts,
                   batch_size, embeddings, lastAdd, encodeCalls, pre, result,
                   stored_count, cvars>>

\* (mutation of HandleValid: the collection looked up by name at every call)
HandleValid_ByName(uid) == Exists(client)

\* The handle `collection` returned by create_collection is used for every add
\* and for count(): it reaches the store only while the collection it was made
\* for is the one the store holds
HandleValid(uid) == client.uid = uid

\* for i in range(0, len(ids), batch_size): is there another write after offset off
MoreWrites(n, off) == off + StoreBatchSize < n

\* one iteration of store_embeddings' loop: collection.add(...) is answered. The
\* store raises when the arrays are refused or the handle's collection is gone.
Add(r) ==
    /\ pc[r] = "add"
    /\ LET a == AddArgs(chunks_df[r], embeddings[r], i[r])
           more == MoreWrites(Len(chunks_df[r]), i[r])
       IN /\ lastAdd' = [lastAdd EXCEPT ![r] = a]
          /\ storeCalls' = [storeCalls EXCEPT ![r] = @ + 1]
          /\ IF AddRefused(a) \/ ~HandleValid(collection[r])
             THEN /\ pc' = [pc EXCEPT ![r] = "failed"]
                  /\ err' = [err EXCEPT ![r] = "StoreWriteFailure"]
                  /\ UNCHANGED <<client, i>>
             ELSE /\ client' = [client EXCEPT !.items = AddItems(@, a)]
                  /\ i' = [i EXCEPT ![r] = IF more THEN @ + StoreBatchSize ELSE @]
                  /\ pc' = [pc EXCEPT ![r] = IF more THEN "add" ELSE "count"]
                  /\ UNCHANGED err
    /\ UNCHANGED <<nextUid, provider, procs, exclusive, runsStarted, op, chunks_df, texts,
                   batch_size, embeddings, collection, encodeCalls, pre, result,
                   stored_count, raced, cvars>>

\* (mutation of AddRaises: the failed run rolls back by deleting its collection)
AddRaises_RollsBack(r) ==
    /\ pc[r] = "add"
    /\ lastAdd' = [lastAdd EXCEPT ![r] = AddArgs(chunks_df[r], embeddings[r], i[r])]
    /\ storeCalls' = [storeCalls EXCEPT ![r] = @ + 2]
    /\ client' = NoCollection
    /\ pc' = [pc EXCEPT ![r] = "failed"]
    /\ err' = [err EXCEPT ![r] = "StoreWriteFailure"]
    /\ UNCHANGED <<nextUid, provider, procs, exclusive, runsStarted, op, chunks_df,
                   texts, batch_size, embeddings, i, collection, encodeCalls, pre,
                   result, stored_count, raced, cvars>>

\* one iteration of store_embeddings' loop: the store rejects the write for a
\* reason of its own; nothing catches it and nothing is rolled back
AddRaises(r) ==
    /\ pc[r] = "add"
    /\ lastAdd' = [lastAdd EXCEPT ![r] = AddArgs(chunks_df[r], embeddings[r], i[r])]
    /\ storeCalls' = [storeCalls EXCEPT ![r] = @ + 1]
    /\ pc' = [pc EXCEPT ![r] = "failed"]
    /\ err' = [err EXCEPT ![r] = "StoreWriteFailure"]
    /\ UNCHANGED <<client, nextUid, provider, procs, exclusive, runsStarted, op, chunks_df,
                   texts, batch_size, embeddings, i, collection, encodeCalls, pre,
                   result, stored_count, raced, cvars>>

\* process_chunks_to_embeddings: stored_count = collection.count() is printed and
\* the collection is returned whatever the count is
VerifyCount(r) ==
    /\ pc[r] = "count"
    /\ IF HandleValid(collection[r])
       THEN /\ stored_count' = [stored_count EXCEPT ![r] = CountItems(client)]
            /\ pc' = [pc EXCEPT ![r] = "done"]
            /\ UNCHANGED err
       ELSE /\ pc' = [pc EXCEPT ![r] = "failed"]
            /\ err' = [err EXCEPT ![r] = "CollectionGone"]
            /\ UNCHANGED stored_count
    /\ UNCHANGED <<client, nextUid, provider, procs, exclusive, runsStarted, op, chunks_df,
                   texts, batch_size, embeddings, i, collection, lastAdd, encodeCalls,
                   storeCalls, pre, result, raced, cvars>>

----------------------------------------------------------------------------
(* Specifications of the ingestion pipeline *)

InitProcs ==
    /\ client = NoCollection
    /\ nextUid = 1
    /\ runsStarted = 0
    /\ pc = [r \in Runs |-> "idle"]
    /\ op = [r \in Runs |-> "pipeline"]
    /\ chunks_df = [r \in Runs |-> <<>>]
    /\ texts = [r \in Runs |-> <<>>]
    /\ batch_size = [r \in Runs |-> DefaultBatchSize]
    /\ embeddings = [r \in Runs |-> <<>>]
    /\ i = [r \in Runs |-> 0]
    /\ collection = [r \in Runs |-> 0]
    /\ lastAdd = [r \in Runs |-> NoAdd]
    /\ encodeCalls = [r \in Runs |-> <<>>]
    /\ storeCalls = [r \in Runs |-> 0]
    /\ pre = [r \in Runs |-> NoCollection]
    /\ result = [r \in Runs |-> <<>>]
    /\ stored_count = [r \in Runs |-> -1]
    /\ err = [r \in Runs |-> ""]
    /\ raced = [r \in Runs |-> FALSE]

InitChunkIdle ==
    /\ cin = <<>>
    /\ cout = <<>>

\* Successive ingestion runs of one process, one at a time
Init ==
    /\ InitProcs
    /\ InitChunkIdle
    /\ provider = "pointwise"
    /\ procs = {1}
    /\ exclusive = TRUE

Next ==
    \/ \E r \in Runs : StartPipeline(r)
    \/ \E r \in Runs : Encode(r)
    \/ \E r \in Runs : EncodeRaises(r)
    \/ \E r \in Runs : GetCollection(r)
    \/ \E r \in Runs : DeleteCollection(r)
    \/ \E r \in Runs : CreateCollection(r)
    \/ \E r \in Runs : Add(r)
    \/ \E r \in Runs : AddRaises(r)
    \/ \E r \in Runs : VerifyCount(r)

Spec == Init /\ [][Next]_vars

\* Two ingestion runs against the same collection name, interleaved at store calls
InitConcurrent ==
    /\ InitProcs
    /\ InitChunkIdle
    /\ provider = "pointwise"
    /\ procs = Runs
    /\ exclusive = FALSE

NextConcurrent ==
    \/ \E r \in Runs : StartPipeline(r)
    \/ \E r \in Runs : Encode(r)
    \/ \E r \in Runs : GetCollection(r)
    \/ \E r \in Runs : DeleteCollection(r)
    \/ \E r \in Runs : CreateCollection(r)
    \/ \E r \in Runs : Add(r)
    \/ \E r \in Runs : VerifyCount(r)

SpecConcurrent == InitConcurrent /\ [][NextConcurrent]_vars

\* Stand-alone generate_embeddings calls, any batch_size, either provider kind
InitEmbed ==
    /\ InitProcs
    /\ InitChunkIdle
    /\ provider \in ProviderKinds
    /\ procs = Runs
    /\ exclusive = FALSE

NextEmbed ==
    \/ \E r \in Runs : StartGenerate(r)
    \/ \E r \in Runs : Encode(r)
    \/ \E r \in Runs : EncodeRaises(r)

SpecEmbed == InitEmbed /\ [][NextEmbed]_vars

----------------------------------------------------------------------------
(* TextProcessor: strings are sequences of characters. A character is a      *)
(* one-character string; the letters of the words of a product text are      *)
(* drawn from Letter(1), Letter(2), ... so that every word of an input is    *)
(* told from every other.                                                    *)

Letter(k) == "w" \o ToString(k)

\* Python's str.isspace for the characters that occur
IsSpace(c) == c \in {" ", "\n", "\t"}

\* str.lstrip() / str.rstrip() / str.strip()
RECURSIVE LStrip(_)
LStrip(s) == IF s # <<>> /\ IsSpace(Head(s)) THEN LStrip(Tail(s)) ELSE s

RECURSIVE RStrip(_)
RStrip(s) ==
    IF s # <<>> /\ IsSpace(s[Len(s)]) THEN RStrip(SubSeq(s, 1, Len(s) - 1)) ELSE s

Strip(s) == RStrip(LStrip(s))

\* the sequences of a sequence joined in order (by halves, to keep the nesting shallow)
RECURSIVE Flatten(_, _, _)
Flatten(parts, lo, hi) ==
    IF lo > hi THEN <<>>
    ELSE IF lo = hi THEN parts[lo]
    ELSE LET mid == (lo + hi) \div 2
         IN Flatten(parts, lo, mid) \o Flatten(parts, mid + 1, hi)

\* a run of non-whitespace starts at position k
WordStart(s, k) == ~IsSpace(s[k]) /\ (k = 1 \/ IsSpace(s[k - 1]))

\* the last position of the run of non-whitespace that holds position k
WordEnd(s, k) ==
    CHOOSE j \in k..Len(s) :
        /\ j = Len(s) \/ IsSpace(s[j + 1])
        /\ \A x \in k..j : ~IsSpace(s[x])

\* str.split(): the maximal runs of non-whitespace characters, in order
Split(s) ==
    Flatten([k \in 1..Len(s) |->
                IF WordStart(s, k) THEN <<SubSeq(s, k, WordEnd(s, k))>> ELSE <<>>],
            1, Len(s))

\* len(s.split())
WordCount(s) == Cardinality({k \in 1..Len(s) : WordStart(s, k)})

\* sep.join(parts)
Join(parts, sep) ==
    Flatten([k \in 1..Len(parts) |-> IF k = 1 THEN parts[k] ELSE sep \o parts[k]],
            1, Len(parts))

\* str.replace(old, new) for a one-character old
Replace(s, old, new) ==
    Flatten([k \in 1..Len(s) |-> IF s[k] = old THEN new ELSE <<s[k]>>], 1, Len(s))

\* re.sub(r'\s+', ' ', text): every maximal run of whitespace becomes one space
CollapseSpaces(s) ==
    Flatten([k \in 1..Len(s) |->
                IF ~IsSpace(s[k]) THEN <<s[k]>>
                ELSE IF k > 1 /\ IsSpace(s[k - 1]) THEN <<>> ELSE <<" ">>],
            1, Len(s))

\* re.sub(r'\.{2,}', '.', text): every run of two or more periods becomes one period
CollapsePeriods(s) ==
    Flatten([k \in 1..Len(s) |->
                IF s[k] = "." /\ k > 1 /\ s[k - 1] = "." THEN <<>> ELSE <<s[k]>>],
            1, Len(s))

\* TextProcessor._clean_text
CleanText(text) ==
    IF text = <<>> THEN <<>>
    ELSE LET t1 == CollapseSpaces(text)
             t2 == Replace(t1, "|", <<".", " ">>)
             t3 == Replace(t2, "\n", <<".", " ">>)
             t4 == Replace(t3, "\t", <<" ">>)
             t5 == CollapsePeriods(t4)
         IN Strip(t5)

IsTerminator(c) == c \in {".", "!", "?"}

\* the pieces of s between the delimiters, a delimiter being a run of positions
\* first..last(first) with first in starts; a is the last position consumed
RECURSIVE PiecesFrom(_, _, _, _)
PiecesFrom(s, starts, last, a) ==
    LET later == {d \in starts : d > a}
    IN IF later = {} THEN <<SubSeq(s, a + 1, Len(s))>>
       ELSE LET b == CHOOSE d \in later : \A e \in later : d <= e
            IN <<SubSeq(s, a + 1, b - 1)>> \o PiecesFrom(s, starts, last, last[b])

\* the last position of the run of . ! ? that holds position k
TerminatorRunEnd(s, k) ==
    CHOOSE j \in k..Len(s) :
        /\ j = Len(s) \/ ~IsTerminator(s[j + 1])
        /\ \A x \in k..j : IsTerminator(s[x])

\* re.split(r'[.!?]+', text): the pieces between the maximal runs of . ! ?
RegexSplit(s) ==
    LET starts == {k \in 1..Len(s) :
                      IsTerminator(s[k]) /\ (k = 1 \/ ~IsTerminator(s[k - 1]))}
    IN PiecesFrom(s, starts, [k \in starts |-> TerminatorRunEnd(s, k)], 0)

\* [s.strip() for s in sentences if s.strip()]
StrippedNonEmpty(parts) ==
    LET stripped == [k \in 1..Len(parts) |-> Strip(parts[k])]
    IN SelectSeq(stripped, LAMBDA x : x # <<>>)

\* TextProcessor._simple_sentence_split
SimpleSentenceSplit(text) == StrippedNonEmpty(RegexSplit(text))

\* nltk.sent_tokenize breaks a text only at whitespace that follows . ! or ? and
\* decides by its trained model which of these places end a sentence. The places:
\* the first whitespace character after a terminator.
BreakPlaces(text) ==
    {k \in 2..Len(text) : IsSpace(text[k]) /\ IsTerminator(text[k - 1])}

\* the ordinal of break place k among the break places of the text
PlaceNumber(text, k) == Cardinality({j \in BreakPlaces(text) : j <= k})

\* nltk.sent_tokenize(text): the tokenizer breaks at the break places of the text,
\* except at those it takes for an abbreviation or the like, numbered in unbroken;
\* the sentences come without the whitespace around them, none of them empty
SentTokenize(text, unbroken) ==
    LET starts == {k \in BreakPlaces(text) : PlaceNumber(text, k) \notin unbroken}
    IN StrippedNonEmpty(PiecesFrom(text, starts, [k \in starts |-> k], 0))

\* try: nltk.sent_tokenize(text)  except: self._simple_sentence_split(text)
\* env.punkt: the tokenizer's data is installed, so that the call does not raise
Sentences(env, text) ==
    IF env.punkt THEN SentTokenize(text, env.unbroken) ELSE SimpleSentenceSplit(text)

\* str(n) for n >= 0
Digit(d) == <<"0", "1", "2", "3", "4", "5", "6", "7", "8", "9">>[d + 1]

RECURSIVE Str(_)
Str(n) == IF n < 10 THEN <<Digit(n)>> ELSE Str(n \div 10) \o <<Digit(n % 10)>>

\* (mutation of ChunkId: the literal of the short-text branch used in the loop)
ChunkId_AlwaysZero(product_id, chunk_index) ==
    product_id \o <<"_", "c", "h", "u", "n", "k", "_", "0">>

\* f"{product_id}_chunk_{chunk_index}"
ChunkId(product_id, chunk_index) ==
    product_id \o <<"_", "c", "h", "u", "n", "k", "_">> \o Str(chunk_index)

\* TextProcessor.__init__: self.min_chunk_size = 50
MinChunkSize == 50

\* chunk_text: the relaxed minimum for the final chunk
FinalMinWords == 30

\* words[-n:]: the last n words, and for n = 0 the slice [-0:], which is all of them
LastWords(words, n) ==
    IF n = 0 THEN words ELSE SubSeq(words, Len(words) - n + 1, Len(words))

\* TextProcessor._get_overlap
GetOverlap(self, text) ==
    IF text = <<>> THEN <<>>
    ELSE LET words == Split(text)
         IN IF Len(words) > self.overlap_size
            THEN Join(LastWords(words, self.overlap_size), <<" ">>)
            ELSE <<>>

\* one dict of the list chunk_text returns
Chunk(text, product_id, chunk_index, word_count) ==
    [text |-> text,
     chunk_id |-> ChunkId(product_id, chunk_index),
     chunk_index |-> chunk_index,
     word_count |-> word_count,
     product_id |-> product_id]

\* (mutation of NextIndex: the increment left out)
NextIndex_Stuck(chunk_index) == chunk_index

\* chunk_index += 1
NextIndex(chunk_index) == chunk_index + 1

\* (mutation of SeededWordCount: the words of the overlap left out of the count)
SeededWordCount_SentenceOnly(current_chunk, sentence_words) == sentence_words

\* current_word_count = len(current_chunk.split()) for the buffer opened on a split
SeededWordCount(current_chunk, sentence_words) == WordCount(current_chunk)

\* the body of chunk_text's loop over the sentences, on the loop's variables
LoopBody(self, product_id, st, raw) ==
    LET sentence == Strip(raw)
        sentence_words == WordCount(sentence)
    IN IF sentence = <<>> THEN st
       ELSE IF st.current_word_count + sentence_words > self.target_chunk_size
               /\ st.current_chunk # <<>>
       THEN LET overlap_text == GetOverlap(self, st.current_chunk)
                new_chunk == IF overlap_text # <<>>
                             THEN overlap_text \o <<" ">> \o sentence
                             ELSE sentence
            IN [chunks |-> Append(st.chunks,
                                  Chunk(Strip(st.current_chunk), product_id,
                                        st.chunk_index, st.current_word_count)),
                current_chunk |-> new_chunk,
                current_word_count |-> SeededWordCount(new_chunk, sentence_words),
                chunk_index |-> NextIndex(st.chunk_index)]
       ELSE [chunks |-> st.chunks,
             current_chunk |-> IF st.current_chunk # <<>>
                               THEN st.current_chunk \o <<" ">> \o sentence
                               ELSE sentence,
             current_word_count |-> st.current_word_count + sentence_words,
             chunk_index |-> st.chunk_index]

RECURSIVE SentenceLoop(_, _, _, _, _)
SentenceLoop(self, product_id, st, sentences, k) ==
    IF k > Len(sentences) THEN st
    ELSE SentenceLoop(self, product_id, LoopBody(self, product_id, st, sentences[k]),
                      sentences, k + 1)

\* chunk_text: if not text or len(text.strip()) < self.min_chunk_size
ShortText(self, text) == text = <<>> \/ Len(Strip(text)) < self.min_chunk_size

\* chunk_text's variables before the loop over the sentences
LoopStart ==
    [chunks |-> <<>>, current_chunk |-> <<>>, current_word_count |-> 0, chunk_index |-> 0]

\* (mutation of AfterLoop: the chunk of the cleaned text for the case of no
\* chunk left out)
AfterLoop_NoFallback(product_id, st, cleaned) ==
    IF st.current_chunk # <<>> /\ st.current_word_count >= FinalMinWords
    THEN Append(st.chunks,
                Chunk(Strip(st.current_chunk), product_id,
                      st.chunk_index, st.current_word_count))
    ELSE st.chunks

\* chunk_text after the loop: the final chunk if it has 30 words, and the one
\* chunk of the cleaned text if there is no chunk at all
AfterLoop(product_id, st, cleaned) ==
    LET chunks == IF st.current_chunk # <<>> /\ st.current_word_count >= FinalMinWords
                  THEN Append(st.chunks,
                              Chunk(Strip(st.current_chunk), product_id,
                                    st.chunk_index, st.current_word_count))
                  ELSE st.chunks
    IN IF chunks = <<>>
       THEN <<Chunk(cleaned, product_id, 0, WordCount(cleaned))>>
       ELSE chunks

\* the one chunk chunk_text returns for a short text
ShortChunk(text, product_id) ==
    Chunk(text, product_id, 0, IF text # <<>> THEN WordCount(text) ELSE 0)

\* TextProcessor.chunk_text; env is what nltk does in this environment
ChunkText(self, env, text, product_id) ==
    IF ShortText(self, text)
    THEN <<ShortChunk(text, product_id)>>
    ELSE LET cleaned == CleanText(text)
             sentences == Sentences(env, cleaned)
         IN AfterLoop(product_id,
                      SentenceLoop(self, product_id, LoopStart, sentences, 1),
                      cleaned)

UpperLetters ==
    <<"A", "B", "C", "D", "E", "F", "G", "H", "I", "J", "K", "L", "M",
      "N", "O", "P", "Q", "R", "S", "T", "U", "V", "W", "X", "Y", "Z">>

LowerLetters ==
    <<"a", "b", "c", "d", "e", "f", "g", "h", "i", "j", "k", "l", "m",
      "n", "o", "p", "q", "r", "s", "t", "u", "v", "w", "x", "y", "z">>

\* (mutation of Lower: the letters left in their case)
Lower_AsGiven(s) == s

\* str.lower()
Lower(s) ==
    [k \in 1..Len(s) |->
        IF \E j \in 1..26 : UpperLetters[j] = s[k]
        THEN LowerLetters[CHOOSE j \in 1..26 : UpperLetters[j] = s[k]]
        ELSE s[k]]

\* the rupee sign of the price clause, one character
Rupee == "rupee"

\* f"{price}": a price is a number of hundredths, of type int (a whole number)
\* or float, whose text has the digits after the point that are needed, one at least
PriceStr(price) ==
    IF price.float
    THEN Str(price.cents \div 100) \o <<".">>
         \o (IF price.cents % 10 = 0
             THEN <<Digit((price.cents % 100) \div 10)>>
             ELSE <<Digit((price.cents % 100) \div 10), Digit(price.cents % 10)>>)
    ELSE Str(price.cents \div 100)

\* TextProcessor.concatenate_product_text
ConcatenateProductText(product_row) ==
    LET title == Strip(product_row.title)
        brand == Strip(product_row.brand)
        category == Strip(product_row.category)
        description == Strip(product_row.description)
        price == product_row.price
        clean_category ==
            Replace(Replace(category, "&", <<" ", "a", "n", "d", " ">>),
                    "|", <<" ", ">", " ">>)
        parts ==
            (IF title # <<>>
             THEN <<<<"P", "r", "o", "d", "u", "c", "t", ":", " ">> \o title>>
             ELSE <<>>)
            \o (IF brand # <<>> /\ Lower(brand) # <<"u", "n", "k", "n", "o", "w", "n">>
                THEN <<<<"B", "r", "a", "n", "d", ":", " ">> \o brand>>
                ELSE <<>>)
            \o (IF category # <<>>
                THEN <<<<"C", "a", "t", "e", "g", "o", "r", "y", ":", " ">>
                       \o clean_category>>
                ELSE <<>>)
            \o (IF price.cents > 0
                THEN <<<<"P", "r", "i", "c", "e", ":", " ", Rupee>> \o PriceStr(price)>>
                ELSE <<>>)
            \o (IF description # <<>>
                THEN <<<<"D", "e", "s", "c", "r", "i", "p", "t", "i", "o", "n", ":", " ">>
                       \o description>>
                ELSE <<>>)
    IN Join(parts, <<".", " ">>)

\* process_dataframe: the chunks of one row, each with the row's metadata
RowChunks(self, env, row) ==
    LET chunks == ChunkText(self, env, ConcatenateProductText(row), row.product_id)
    IN [k \in 1..Len(chunks) |->
           [text |-> chunks[k].text,
            chunk_id |-> chunks[k].chunk_id,
            chunk_index |-> chunks[k].chunk_index,
            word_count |-> chunks[k].word_count,
            product_id |-> chunks[k].product_id,
            original_title |-> row.title,
            brand |-> row.brand,
            category |-> row.category,
            price |-> row.price,
            availability |-> row.availability]]

\* process_dataframe: all_chunks after the loop over the rows
AllChunks(self, env, df) ==
    Flatten([k \in 1..Len(df) |-> RowChunks(self, env, df[k])], 1, Len(df))

----------------------------------------------------------------------------
(* The inputs of the TextProcessor calls *)

\* the number of pieces a text is made of, and of rows of a dataframe
MaxPieces == 2
MaxRows == 2

\* the words w(a), ..., w(b) of one character each, a space between them
Words(a, b) == Join([k \in 1..(b - a + 1) |-> <<Letter(a + k - 1)>>], <<" ">>)

\* n words of nine characters each, a space between them
LongWords(n) ==
    Join([k \in 1..n |-> [j \in 1..9 |-> Letter(9 * k + j)]], <<" ">>)

\* the pieces texts are made of: a sentence of one word; two words closed by a
\* pipe; five long words (50 characters); 30 words closed by "!" and two spaces;
\* three words and a newline, without a terminator; 126 words; whitespace;
\* punctuation alone (50 characters); three short sentences
Pieces ==
    {<<Letter(1), ".", " ">>,
     <<Letter(2), " ", Letter(3), "|">>,
     LongWords(5) \o <<".", " ">>,
     Words(1, 30) \o <<"!", " ", " ">>,
     <<Letter(4), " ", Letter(5), " ", Letter(6), "\n">>,
     Words(1, 126) \o <<"?", " ">>,
     <<" ", "\t">>,
     [k \in 1..49 |-> "."] \o <<"?">>,
     <<Letter(4), " ", Letter(5), " ", Letter(6), "!", " ", Letter(7), "?", " ",
       Letter(8), " ", Letter(9), ".", " ">>}

RECURSIVE TextsOf(_)
TextsOf(n) ==
    IF n = 0 THEN {<<>>}
    ELSE LET shorter == TextsOf(n - 1)
         IN shorter \cup {t \o p : t \in shorter, p \in Pieces}

Texts == TextsOf(MaxPieces)

\* TextProcessor(target_chunk_size, overlap_size): the defaults and small sizes
Processors ==
    {[target_chunk_size |-> 125, overlap_size |-> 25, min_chunk_size |-> MinChunkSize],
     [target_chunk_size |-> 6, overlap_size |-> 2, min_chunk_size |-> MinChunkSize],
     [target_chunk_size |-> 6, overlap_size |-> 0, min_chunk_size |-> MinChunkSize]}

\* what nltk does with a text: no tokenizer data (the call raises), or a
\* tokenizer that leaves some of the text's break places unbroken
Envs(text) ==
    {[punkt |-> FALSE, unbroken |-> {}]}
    \cup {[punkt |-> TRUE, unbroken |-> u] :
             u \in SUBSET (1..Cardinality(BreakPlaces(CleanText(text))))}

ProductIds == {<<"p">>, <<"p", "_", "c", "h", "u", "n", "k", "_", "1">>}

\* the columns of a product other than its id
Contents ==
    {[title |-> <<"T">>, brand |-> <<"U", "n", "k", "n", "o", "w", "n">>,
      category |-> <<>>, description |-> <<>>,
      price |-> [cents |-> 0, float |-> FALSE]],
     [title |-> <<" ", "t", " ">>, brand |-> <<"b">>,
      category |-> <<"a", "&", "b", "|", "c">>,
      description |-> LongWords(5) \o <<".", " ">> \o LongWords(5) \o <<".", " ">>
                      \o <<Letter(2), " ", Letter(3), ".">>,
      price |-> [cents |-> 500, float |-> FALSE]],
     [title |-> <<>>, brand |-> <<"u", "n", "k", "n", "o", "w", "n">>,
      category |-> <<>>, description |-> Words(1, 30) \o <<"!">>,
      price |-> [cents |-> 250, float |-> TRUE]]}

ProductRows ==
    {[product_id |-> id, title |-> c.title, brand |-> c.brand, category |-> c.category,
      description |-> c.description, price |-> c.price,
      availability |-> <<"y">>] : id \in ProductIds, c \in Contents}

\* the row of the documentation's example
ExampleRow ==
    [product_id |-> <<"p">>,
     title |-> <<"W", "i", "r", "e", "l", "e", "s", "s", " ", "M", "o", "u", "s", "e">>,
     brand |-> <<"a", "c", "m", "e">>,
     category |-> <<"e", "l", "e", "c", "t", "r", "o", "n", "i", "c", "s", "|", "c", "o", "m", "p", "u", "t", "e", "r", "s">>,
     description |-> <<"d">>,
     price |-> [cents |-> 1999, float |-> TRUE],
     availability |-> <<"y">>]

\* rows for concatenate_product_text: every column empty, blank, plain and padded,
\* the brand sentinel in several cases, prices below, at and above zero
ConcatRows ==
    {ExampleRow}
    \cup {[product_id |-> <<"p">>, title |-> t, brand |-> b, category |-> c,
           description |-> d, price |-> pr, availability |-> <<"y">>] :
             t \in {<<>>, <<" ">>, <<"T">>, <<" ", "t", " ">>},
             b \in {<<>>, <<"b">>, <<"u", "n", "k", "n", "o", "w", "n">>,
                    <<" ", "U", "n", "k", "n", "o", "w", "N", " ">>},
             c \in {<<>>, <<"a", "&", "b", "|", "c">>, <<" ", "c", " ">>},
             d \in {<<>>, <<" ", "d", ".", " ", "e", " ">>},
             pr \in {[cents |-> 0, float |-> FALSE], [cents |-> 0 - 100, float |-> FALSE],
                     [cents |-> 500, float |-> FALSE], [cents |-> 250, float |-> TRUE]}}

RECURSIVE DataframesOf(_)
DataframesOf(n) ==
    IF n = 0 THEN {<<>>}
    ELSE LET shorter == DataframesOf(n - 1)
         IN shorter \cup {Append(d, row) : d \in shorter, row \in ProductRows}

Dataframes == DataframesOf(MaxRows)

----------------------------------------------------------------------------
(* The TextProcessor calls as processes *)

\* no call has started
NotCalled ==
    [pc |-> "call", text |-> <<>>, sentences |-> <<>>, k |-> 0, st |-> LoopStart,
     split |-> FALSE, closed |-> <<>>, result |-> <<>>, error |-> "none"]

\* chunk_text, lines 59-81: the short-text return, or cleaning and tokenizing
ChunkTextBegin ==
    /\ cin.call = "chunk_text"
    /\ cout.pc = "call"
    /\ cout' = IF ShortText(cin.self, cin.text)
               THEN [cout EXCEPT !.pc = "returned", !.text = cin.text,
                                 !.result = <<ShortChunk(cin.text, cin.product_id)>>]
               ELSE LET cleaned == CleanText(cin.text)
                    IN [cout EXCEPT !.pc = "loop", !.text = cleaned,
                                    !.sentences = Sentences(cin.env, cleaned),
                                    !.k = 1, !.st = LoopStart]
    /\ UNCHANGED <<cin, pvars>>

\* chunk_text, lines 83-109: one turn of the loop over the sentences
SentenceStep ==
    /\ cin.call = "chunk_text"
    /\ cout.pc = "loop"
    /\ cout.k <= Len(cout.sentences)
    /\ LET st == LoopBody(cin.self, cin.product_id, cout.st, cout.sentences[cout.k])
       IN cout' = [cout EXCEPT !.st = st, !.k = cout.k + 1,
                               !.split = Len(st.chunks) > Len(cout.st.chunks),
                               !.closed = cout.st.current_chunk]
    /\ UNCHANGED <<cin, pvars>>

\* chunk_text, lines 111-131: the final chunk, the fallback, the return
ChunkTextEnd ==
    /\ cin.call = "chunk_text"
    /\ cout.pc = "loop"
    /\ cout.k > Len(cout.sentences)
    /\ cout' = [cout EXCEPT !.pc = "returned", !.split = FALSE,
                            !.result = AfterLoop(cin.product_id, cout.st, cout.text)]
    /\ UNCHANGED <<cin, pvars>>

\* process_dataframe; the DataFrame of no chunks has no word_count column
ProcessDataframe ==
    /\ cin.call = "process_dataframe"
    /\ cout.pc = "call"
    /\ LET all_chunks == AllChunks(cin.self, cin.env, cin.df)
       IN cout' = IF all_chunks = <<>>
                  THEN [cout EXCEPT !.pc = "raised", !.error = "KeyError"]
                  ELSE [cout EXCEPT !.pc = "returned", !.result = all_chunks]
    /\ UNCHANGED <<cin, pvars>>

\* concatenate_product_text(row.to_dict()) on the one row of cin.df
ConcatenateCall ==
    /\ cin.call = "concatenate_product_text"
    /\ cout.pc = "call"
    /\ cout' = [cout EXCEPT !.pc = "returned",
                            !.text = ConcatenateProductText(cin.df[1])]
    /\ UNCHANGED <<cin, pvars>>

\* a TextProcessor and the arguments of one call of chunk_text, process_dataframe
\* or concatenate_product_text
InitChunk ==
    /\ InitProcs
    /\ provider = "pointwise"
    /\ procs = {}
    /\ exclusive = TRUE
    /\ cin \in UNION {{[call |-> "chunk_text", self |-> p, env |-> e, text |-> t,
                         product_id |-> <<"p">>, df |-> <<>>] :
                            p \in Processors, e \in Envs(t)} : t \in Texts}
               \cup
               {[call |-> "process_dataframe", self |-> p,
                 env |-> [punkt |-> b, unbroken |-> {}], text |-> <<>>,
                 product_id |-> <<>>, df |-> d] :
                    p \in Processors, b \in BOOLEAN, d \in Dataframes}
               \cup
               {[call |-> "concatenate_product_text",
                 self |-> [target_chunk_size |-> 125, overlap_size |-> 25,
                           min_chunk_size |-> MinChunkSize],
                 env |-> [punkt |-> TRUE, unbroken |-> {}], text |-> <<>>,
                 product_id |-> <<>>, df |-> <<row>>] : row \in ConcatRows}
    /\ cout = NotCalled

NextChunk ==
    \/ ChunkTextBegin
    \/ SentenceStep
    \/ ChunkTextEnd
    \/ ProcessDataframe
    \/ ConcatenateCall

SpecChunk == InitChunk /\ [][NextChunk]_vars

----------------------------------------------------------------------------
(* Claims about the ingestion pipeline *)

IdSet(df) == {df[k].chunk_id : k \in 1..Len(df)}

DistinctIds(df) == Cardinality(IdSet(df)) = Len(df)

\* store_embeddings has returned its collection to process_chunks_to_embeddings
Stored(r) == op[r] = "pipeline" /\ pc[r] \in {"count", "done"}

\* the provider batch that row k (1-based) of the call's texts was encoded in
BatchOfRow(r, k) == encodeCalls[r][((k - 1) \div batch_size[r]) + 1]

\* the entry row k of process r's chunk set makes in a collection
EntryOfRow(r, k) ==
    [embedding |-> Vec(provider, chunks_df[r][k].text, BatchOfRow(r, k)),
     document |-> chunks_df[r][k].text,
     metadata |-> chunks_df[r][k].meta]

\* C2 as stated: once store_embeddings has returned without error, the collection's
\* count equals the number of input chunks, whatever the chunk set.
C2_CountEqualsChunksAlways ==
    \A r \in Runs :
        /\ Stored(r) => CountItems(client) = Len(chunks_df[r])
        /\ (op[r] = "pipeline" /\ pc[r] = "done") => stored_count[r] = Len(chunks_df[r])

\* C2 amended: once store_embeddings has returned without error for a chunk set
\* whose chunk_ids are pairwise distinct, the collection's count equals the number
\* of input chunks and every input chunk_id has its one entry.
C2_CountEqualsChunksWhenIdsDistinct ==
    \A r \in Runs :
        DistinctIds(chunks_df[r]) =>
            /\ Stored(r) => /\ CountItems(client) = Len(chunks_df[r])
                            /\ DOMAIN client.items = IdSet(chunks_df[r])
            /\ (op[r] = "pipeline" /\ pc[r] = "done")
                   => stored_count[r] = Len(chunks_df[r])

C2_Witness ==
    \E r \in Runs :
        /\ op[r] = "pipeline" /\ pc[r] = "done"
        /\ DistinctIds(chunks_df[r])
        /\ Len(chunks_df[r]) > 2 * StoreBatchSize
        /\ stored_count[r] = Len(chunks_df[r])

HoldsChunkSetOf(q) ==
    /\ Exists(client)
    /\ DOMAIN client.items = IdSet(chunks_df[q])
    /\ \A k \in 1..Len(chunks_df[q]) :
           client.items[chunks_df[q][k].chunk_id].document = chunks_df[q][k].text

\* C4: with two runs interleaved on one collection name, a run that had another
\* run's delete/create fall between its batch writes never completes: its next
\* write goes to a collection that is gone and fails, so the run ends failed.
C4_RacedRunCannotComplete ==
    \A r \in Runs :
        raced[r] =>
            /\ pc[r] \in {"add", "failed"}
            /\ pc[r] = "failed" => err[r] = "StoreWriteFailure"
            /\ ~HandleValid(collection[r])

\* the race has happened: a run lost a later write to the other run's delete/create
\* and the collection is the chunk set of neither run
C4_Witness ==
    \E r \in Runs :
        /\ raced[r]
        /\ pc[r] = "failed"
        /\ lastAdd[r].i > 0
        /\ \A q \in Runs : ~HoldsChunkSetOf(q)

\* C5: when the provider fails on a batch, the failure ends the run: no batch was
\* handed to the provider twice, no vector is kept or returned, no delete, create
\* or add call was issued, and the collection is as it was when the run started.
C5_ProviderFailureAborts ==
    \A r \in Runs :
        err[r] = "EmbeddingProviderFailure" =>
            /\ pc[r] = "failed"
            /\ embeddings[r] = <<>>
            /\ result[r] = <<>>
            /\ storeCalls[r] = 0
            /\ lastAdd[r] = NoAdd
            /\ collection[r] = 0
            /\ client = pre[r]
            /\ \A k \in 1..Len(encodeCalls[r]) :
                   encodeCalls[r][k]
                       = Slice(texts[r], (k - 1) * batch_size[r], k * batch_size[r])

\* the provider failed on a later batch of a run over a populated collection
C5_Witness ==
    \E r \in Runs :
        /\ err[r] = "EmbeddingProviderFailure"
        /\ Len(encodeCalls[r]) >= 2
        /\ Exists(pre[r])
        /\ CountItems(pre[r]) > 0

\* C6: in every add call the four arrays have one length, at most 100, and
\* position j of each belongs to row i+j of the chunk set, the embedding being
\* the provider's vector for that row's text.
C6_AddArraysAligned ==
    \A r \in Runs :
        lastAdd[r] # NoAdd =>
            LET a == lastAdd[r]
                n == Len(a.ids)
            IN /\ n \in 1..StoreBatchSize
               /\ Len(a.embeddings) = n
               /\ Len(a.documents) = n
               /\ Len(a.metadatas) = n
               /\ a.i + n <= Len(chunks_df[r])
               /\ \A j \in 1..n :
                      /\ a.ids[j] = chunks_df[r][a.i + j].chunk_id
                      /\ a.documents[j] = chunks_df[r][a.i + j].text
                      /\ a.metadatas[j] = chunks_df[r][a.i + j].meta
                      /\ a.embeddings[j] = EntryOfRow(r, a.i + j).embedding

\* a full batch was written at a later offset
C6_Witness ==
    \E r \in Runs :
        /\ lastAdd[r] # NoAdd
        /\ lastAdd[r].i = StoreBatchSize
        /\ Len(lastAdd[r].ids) = StoreBatchSize

\* the sequences of seqs joined in order
RECURSIVE Concat(_)
Concat(ss) == IF ss = <<>> THEN <<>> ELSE Head(ss) \o Concat(Tail(ss))

\* C7: a finished generate_embeddings call has handed the provider the texts in
\* consecutive batches of batch_size (the last one possibly shorter, none empty),
\* once each, and returned one vector per text, output[k] being the provider's
\* vector for input[k]; with a provider whose vector depends on the text alone,
\* two calls on the same texts return the same array whatever their batch sizes.
C7_BatchingPreservesEmbeddings ==
    /\ \A r \in Runs :
        (op[r] = "embed" /\ pc[r] = "done") =>
            /\ Concat(encodeCalls[r]) = texts[r]
            /\ \A b \in 1..Len(encodeCalls[r]) :
                   /\ Len(encodeCalls[r][b]) \in 1..batch_size[r]
                   /\ b < Len(encodeCalls[r]) => Len(encodeCalls[r][b]) = batch_size[r]
            /\ Len(result[r]) = Len(texts[r])
            /\ \A k \in 1..Len(texts[r]) :
                   result[r][k] = Vec(provider, texts[r][k], BatchOfRow(r, k))
    /\ \A r, q \in Runs :
        (/\ op[r] = "embed" /\ pc[r] = "done"
         /\ op[q] = "embed" /\ pc[q] = "done"
         /\ texts[r] = texts[q]
         /\ provider = "pointwise") => result[r] = result[q]

\* two finished calls on the same texts, batched differently
C7_Witness ==
    /\ provider = "pointwise"
    /\ op[1] = "embed" /\ pc[1] = "done"
    /\ op[2] = "embed" /\ pc[2] = "done"
    /\ texts[1] = texts[2]
    /\ Len(texts[1]) >= 3
    /\ Len(encodeCalls[1]) # Len(encodeCalls[2])
    /\ Len(encodeCalls[1]) >= 2
    /\ result[1] = result[2]

----------------------------------------------------------------------------
(* Claims about chunking *)

\* a occurs in b as a run of consecutive characters
IsInfix(a, b) ==
    \E j \in 0..(Len(b) - Len(a)) : SubSeq(b, j + 1, j + Len(a)) = a

\* the call of chunk_text has returned
ChunkTextReturned == cin.call = "chunk_text" /\ cout.pc = "returned"

\* the call of chunk_text has returned from the splitting path
SplitPathReturned == ChunkTextReturned /\ ~ShortText(cin.self, cin.text)

\* C1 as stated: when chunk_text returns from the splitting path, every sentence
\* of the cleaned text appears in full in the text of at least one returned chunk.
C1_EverySentenceInSomeChunk ==
    SplitPathReturned =>
        \A k \in 1..Len(cout.sentences) :
            \E c \in 1..Len(cout.result) :
                IsInfix(cout.sentences[k], cout.result[c].text)

\* C8: the chunks chunk_text returns have chunk_index 0, 1, ..., n-1 in output
\* order, on the short-text path and on the splitting path, and so have the
\* chunks closed so far at every turn of the loop.
C8_ChunkIndicesContiguous ==
    /\ ChunkTextReturned =>
           /\ Len(cout.result) >= 1
           /\ \A k \in 1..Len(cout.result) : cout.result[k].chunk_index = k - 1
    /\ (cin.call = "chunk_text" /\ cout.pc = "loop") =>
           /\ \A k \in 1..Len(cout.st.chunks) : cout.st.chunks[k].chunk_index = k - 1
           /\ cout.st.chunk_index = Len(cout.st.chunks)

\* a call has returned a chunk closed on a split and a final chunk after it
C8_Witness ==
    /\ SplitPathReturned
    /\ Len(cout.st.chunks) >= 1
    /\ Len(cout.result) = Len(cout.st.chunks) + 1
    /\ cout.result[Len(cout.result)].chunk_index = Len(cout.result) - 1

\* no two rows of the dataframe have the same product_id
DistinctProductIds(df) ==
    \A j, k \in 1..Len(df) : j # k => df[j].product_id # df[k].product_id

\* C9: every returned chunk's chunk_id is its product_id, "_chunk_" and its
\* chunk_index in decimal, and the chunks process_dataframe returns for rows of
\* pairwise distinct product ids have pairwise distinct chunk_ids.
C9_ChunkIdsDerivedAndDistinct ==
    cout.pc = "returned" =>
        /\ \A k \in 1..Len(cout.result) :
               cout.result[k].chunk_id
                   = cout.result[k].product_id
                     \o <<"_", "c", "h", "u", "n", "k", "_">>
                     \o Str(cout.result[k].chunk_index)
        /\ (cin.call = "process_dataframe" /\ DistinctProductIds(cin.df)) =>
               \A j, k \in 1..Len(cout.result) :
                   j # k => cout.result[j].chunk_id # cout.result[k].chunk_id

\* process_dataframe has returned the chunks of two products, one of several
\* chunks and the other one named like a chunk of the first
C9_Witness ==
    /\ cin.call = "process_dataframe"
    /\ cout.pc = "returned"
    /\ DistinctProductIds(cin.df)
    /\ \E j, k \in 1..Len(cout.result) :
           /\ cout.result[j].product_id = <<"p">>
           /\ cout.result[j].chunk_index = 1
           /\ cout.result[k].product_id = cout.result[j].chunk_id

\* C10 as stated: for a text of fewer than min_chunk_size (50) words, chunk_text
\* returns exactly one chunk, of chunk_index 0, whose text is the input unchanged.
C10_FewWordsReturnedUnchanged ==
    (ChunkTextReturned /\ WordCount(Strip(cin.text)) < cin.self.min_chunk_size) =>
        /\ Len(cout.result) = 1
        /\ cout.result[1].chunk_index = 0
        /\ cout.result[1].text = cin.text

\* C11: a call of chunk_text never ends in an error, and what it returns is a
\* sequence of at least one chunk, for empty, whitespace-only and
\* punctuation-only texts and when the tokenizer raises and the regex split is
\* used instead.
C11_AlwaysAtLeastOneChunk ==
    cin.call = "chunk_text" =>
        /\ cout.pc \in {"call", "loop", "returned"}
        /\ cout.error = "none"
        /\ cout.pc = "returned" => Len(cout.result) >= 1

\* the tokenizer raised, the regex split found no sentence in a text of
\* punctuation, and the call returned its one chunk
C11_Witness ==
    /\ SplitPathReturned
    /\ ~cin.env.punkt
    /\ cout.sentences = <<>>
    /\ \A k \in 1..Len(cin.text) : IsTerminator(cin.text[k])
    /\ Len(cout.result) = 1

\* the last n words of a sequence of words, all of them if there are fewer
TrailingWords(words, n) ==
    IF Len(words) <= n THEN words ELSE SubSeq(words, Len(words) - n + 1, Len(words))

\* the loop of chunk_text has just closed a chunk and opened the next buffer
JustSplit == cin.call = "chunk_text" /\ cout.pc = "loop" /\ cout.split

\* the sentence that the last turn of the loop took
TriggeringSentence == Strip(cout.sentences[cout.k - 1])

\* C12 as stated: when chunk_text closes a chunk, the new buffer is the last
\* overlap_size words of the closed chunk followed by the sentence that triggered
\* the split, and so in what is returned each chunk begins with the last
\* overlap_size words of the chunk before it.
C12_BufferIsOverlapTailThenSentence ==
    /\ JustSplit =>
           Split(cout.st.current_chunk)
               = TrailingWords(Split(cout.closed), cin.self.overlap_size)
                 \o Split(TriggeringSentence)
    /\ ChunkTextReturned =>
           \A c \in 1..(Len(cout.result) - 1) :
               LET tail == TrailingWords(Split(cout.result[c].text),
                                         cin.self.overlap_size)
                   next == Split(cout.result[c + 1].text)
               IN /\ Len(next) >= Len(tail)
                  /\ SubSeq(next, 1, Len(tail)) = tail

\* C13 as stated: every chunk chunk_text returns has at most
\* target_chunk_size + overlap_size words (150 for the defaults), by its
\* word_count and by the words of its text.
C13_ChunkWithinTargetPlusOverlap ==
    ChunkTextReturned =>
        \A c \in 1..Len(cout.result) :
            /\ cout.result[c].word_count
                   <= cin.self.target_chunk_size + cin.self.overlap_size
            /\ WordCount(cout.result[c].text)
                   <= cin.self.target_chunk_size + cin.self.overlap_size

\* C17 as stated: with overlap_size = 0 the buffer opened on a split is the
\* triggering sentence alone, and with any overlap_size the buffer has at most
\* overlap_size words before that sentence.
C17_OverlapTailWithinOverlapSize ==
    JustSplit =>
        /\ cin.self.overlap_size = 0 => cout.st.current_chunk = TriggeringSentence
        /\ WordCount(cout.st.current_chunk)
               <= cin.self.overlap_size + WordCount(TriggeringSentence)

\* C18: every chunk chunk_text returns, and every chunk of process_dataframe, has
\* as word_count the number of whitespace-separated words of its own text, and
\* so has every chunk closed so far in the loop.
C18_WordCountIsWordsOfText ==
    /\ cout.pc = "returned" =>
           \A c \in 1..Len(cout.result) :
               cout.result[c].word_count = Len(Split(cout.result[c].text))
    /\ cout.pc = "loop" =>
           \A c \in 1..Len(cout.st.chunks) :
               cout.st.chunks[c].word_count = Len(Split(cout.st.chunks[c].text))

\* a returned chunk began with the overlap tail of the chunk before it and was
\* extended by a further sentence: it holds two sentences after the tail
C18_Witness ==
    /\ SplitPathReturned
    /\ \E c \in 2..Len(cout.result) :
           LET tail == GetOverlap(cin.self, cout.result[c - 1].text)
               text == cout.result[c].text
           IN /\ tail # <<>>
              /\ SubSeq(text, 1, Len(tail)) = tail
              /\ \E k \in 1..(Len(cout.sentences) - 1) :
                     text = tail \o <<" ">> \o Strip(cout.sentences[k])
                                 \o <<" ">> \o Strip(cout.sentences[k + 1])
              /\ cout.result[c].word_count > cin.self.overlap_size + 1

----------------------------------------------------------------------------
(* Further claims about the ingestion pipeline *)

\* C14 as stated: when a run has written all its batches and the collection's
\* count differs from the number of input chunks, the run ends with a
\* CountMismatch signal to its caller, having written every batch once only.
C14_CountMismatchIsSignalled ==
    \A r \in Runs :
        (op[r] = "pipeline" /\ pc[r] = "done" /\ stored_count[r] # Len(chunks_df[r])) =>
            /\ err[r] = "CountMismatch"
            /\ lastAdd[r].i + Len(lastAdd[r].ids) = Len(chunks_df[r])

\* C16: when an add call fails, the run ends failed at that call: the call that
\* failed is the last one issued, rows remain unwritten, and the collection is
\* the one the run created, holding exactly the ids of the rows before the failed
\* batch, each with the vector, document and metadata of such a row. It is so in
\* every state until the next run starts.
C16_FailedWriteLeavesPrefix ==
    \A r \in Runs :
        (pc[r] = "failed" /\ err[r] = "StoreWriteFailure") =>
            /\ lastAdd[r].i = i[r]
            /\ i[r] < Len(chunks_df[r])
            /\ i[r] % StoreBatchSize = 0
            /\ Exists(client)
            /\ HandleValid(collection[r])
            /\ DOMAIN client.items = {chunks_df[r][k].chunk_id : k \in 1..i[r]}
            /\ \A id \in DOMAIN client.items :
                   \E k \in 1..i[r] :
                       /\ chunks_df[r][k].chunk_id = id
                       /\ client.items[id] = EntryOfRow(r, k)

\* the third add call of a run failed, two batches of the run are in the collection
C16_Witness ==
    \E r \in Runs :
        /\ pc[r] = "failed"
        /\ err[r] = "StoreWriteFailure"
        /\ i[r] = 2 * StoreBatchSize
        /\ CountItems(client) = 2 * StoreBatchSize
        /\ Len(chunks_df[r]) > i[r]

----------------------------------------------------------------------------
(* Claims about the assembled text *)

\* the clauses of a product in their order, each one if its condition holds,
\* joined by ". "; sentinel tells whether the brand is the sentinel
JoinedClauses(title, brand, sentinel, category, price, description) ==
    LET slots ==
            <<[on |-> title # <<>>,
               clause |-> <<"P", "r", "o", "d", "u", "c", "t", ":", " ">> \o title],
              [on |-> brand # <<>> /\ ~sentinel,
               clause |-> <<"B", "r", "a", "n", "d", ":", " ">> \o brand],
              [on |-> category # <<>>,
               clause |-> <<"C", "a", "t", "e", "g", "o", "r", "y", ":", " ">>
                          \o Replace(Replace(category, "&", <<" ", "a", "n", "d", " ">>), "|", <<" ", ">", " ">>)],
              [on |-> price.cents > 0,
               clause |-> <<"P", "r", "i", "c", "e", ":", " ">> \o <<Rupee>>
                          \o (IF price.cents > 0 THEN PriceStr(price) ELSE <<>>)],
              [on |-> description # <<>>,
               clause |-> <<"D", "e", "s", "c", "r", "i", "p", "t", "i", "o", "n", ":", " ">> \o description]>>
        present == SelectSeq(slots, LAMBDA x : x.on)
    IN Join([k \in 1..Len(present) |-> present[k].clause], <<".", " ">>)

ConcatenateReturned == cin.call = "concatenate_product_text" /\ cout.pc = "returned"

====
